---- MODULE Spec2Model ----
(***************************************************************************)
(* A model of the cmd-builder package (src/cmd.go): the CmdBuilder fluent  *)
(* builder over exec.Cmd and the CmdFactory that stamps default options on *)
(* every builder it creates.                                               *)
(*                                                                         *)
(* Strings the code inspects (process output) are sequences of             *)
(* one-character strings.  A []string is a Go slice: a backing array on    *)
(* the heap plus a length; append writes in place when the capacity        *)
(* allows and reallocates otherwise.  An io.Writer field is the flattened  *)
(* list of the writers a write reaches (<<>> is nil, io.MultiWriter        *)
(* concatenates).                                                          *)
(***************************************************************************)
EXTENDS Naturals, Sequences, FiniteSets

VARIABLES goos, environ, heap, factory, given, builders, hist, sinks, bufs, last, calls,
          budget

vars == <<goos, environ, heap, factory, given, builders, hist, sinks, bufs, last, calls,
          budget>>

(***************************************************************************)
(* Bounds of the model.                                                    *)
(***************************************************************************)
\* builders a caller creates, and calls it makes on them, where builders interact
MaxBuilders == 2
MaxCalls == 2
\* the same for a caller that launches processes
MaxLaunchers == 1
MaxRuns == 3

(***************************************************************************)
(* Characters and strings.                                                 *)
(***************************************************************************)
LF == "\n"
CR == "\r"
SP == " "
TAB == "\t"

\* unicode.IsSpace restricted to the characters the model uses
IsSpace(c) == c \in {SP, TAB, LF, CR}

RECURSIVE TrimLeft(_)
TrimLeft(s) ==
    IF s = <<>> THEN <<>>
    ELSE IF IsSpace(Head(s)) THEN TrimLeft(Tail(s))
    ELSE s

RECURSIVE TrimRight(_)
TrimRight(s) ==
    IF s = <<>> THEN <<>>
    ELSE IF IsSpace(s[Len(s)]) THEN TrimRight(SubSeq(s, 1, Len(s) - 1))
    ELSE s

\* strings.TrimSpace
TrimSpace(s) == TrimRight(TrimLeft(s))

\* strings.ReplaceAll(s, "\r\n", "\n"): left to right, non-overlapping
RECURSIVE ReplaceCRLF(_)
ReplaceCRLF(s) ==
    IF s = <<>> THEN <<>>
    ELSE IF Len(s) >= 2 /\ s[1] = CR /\ s[2] = LF
         THEN <<LF>> \o ReplaceCRLF(SubSeq(s, 3, Len(s)))
    ELSE <<Head(s)>> \o ReplaceCRLF(Tail(s))

\* strings.Split(s, "\n"): one more element than there are separators
RECURSIVE SplitLF(_, _)
SplitLF(s, cur) ==
    IF s = <<>> THEN <<cur>>
    ELSE IF Head(s) = LF THEN <<cur>> \o SplitLF(Tail(s), <<>>)
    ELSE SplitLF(Tail(s), Append(cur, Head(s)))

Split(s) == SplitLF(s, <<>>)

(***************************************************************************)
(* Go slices of strings: [arr, len] over the heap of backing arrays; the   *)
(* capacity of a slice is the length of its backing array (every slice of  *)
(* the program starts at index 0 of its array).  arr = 0 is the nil slice. *)
(***************************************************************************)
NilSlice == [arr |-> 0, len |-> 0]
ZeroEntry == <<"", "">>

Cap(h, s) == IF s.arr = 0 THEN 0 ELSE Len(h[s.arr])

\* the visible contents of a slice
Contents(h, s) == IF s.arr = 0 THEN <<>> ELSE SubSeq(h[s.arr], 1, s.len)

\* runtime.growslice for small slices: double, or the needed length if larger
GrowCap(old, needed) == IF needed > 2 * old THEN needed ELSE 2 * old

\* append(s, vars...)
GoAppend(h, s, vs) ==
    LET needed == s.len + Len(vs) IN
    IF needed <= Cap(h, s)
    THEN [slice |-> IF Len(vs) = 0 THEN s ELSE [arr |-> s.arr, len |-> needed],
          heap |-> IF Len(vs) = 0 THEN h
                   ELSE [h EXCEPT ![s.arr] =
                           [i \in 1..Len(@) |->
                              IF i > s.len /\ i <= needed THEN vs[i - s.len] ELSE @[i]]]]
    ELSE LET newcap == GrowCap(Cap(h, s), needed)
             old == Contents(h, s)
             fresh == [i \in 1..newcap |->
                         IF i <= s.len THEN old[i]
                         ELSE IF i <= needed THEN vs[i - s.len]
                         ELSE ZeroEntry]
         IN [slice |-> [arr |-> Len(h) + 1, len |-> needed],
             heap |-> Append(h, fresh)]

\* os.Environ(): a fresh copy of the process environment
Environ(h, env) ==
    IF Len(env) = 0 THEN [slice |-> NilSlice, heap |-> h]
    ELSE [slice |-> [arr |-> Len(h) + 1, len |-> Len(env)], heap |-> Append(h, env)]

\* os.Getenv(key): the value of the first entry with that key, "" when unset
RECURSIVE Getenv(_, _)
Getenv(env, key) ==
    IF env = <<>> THEN ""
    ELSE IF Head(env)[1] = key THEN Head(env)[2]
    ELSE Getenv(Tail(env), key)

(***************************************************************************)
(* Writers and readers.                                                    *)
(***************************************************************************)
Sink(name) == [name |-> name, buf |-> 0]
Buf(n) == [name |-> "bytes.Buffer", buf |-> n]

NilWriter == <<>>
OsStdout == <<Sink("os.Stdout")>>
OsStderr == <<Sink("os.Stderr")>>
OsStdin == "os.Stdin"
NilReader == "nil"

\* io.MultiWriter(w, more): the writers of both, flattened
MultiWriter(w, more) == w \o more

NoError == "nil"

(***************************************************************************)
(* Constructors.  A cmd is the exec.Cmd a builder owns: Args is argv       *)
(* (Args[1] is the executable name as given; its resolution to a path is   *)
(* the exec package's business), Process is "nil" until a start succeeds,  *)
(* ProcessState holds the exit status once the process has ended, Bound is *)
(* the writer the started process's standard output is tied to.            *)
(***************************************************************************)

\* Cmd passing the name alone to exec.Command
CmdWithoutArgs(h, env, name, args) ==
    LET e == Environ(h, env) IN
    [cmd |-> [Args |-> <<name>>,
              Dir |-> "",
              Stdin |-> NilReader,
              Stdout |-> NilWriter,
              Stderr |-> OsStderr,
              Env |-> e.slice,
              Process |-> "nil",
              ProcessState |-> <<>>,
              Bound |-> NilWriter],
     heap |-> e.heap]

\* Cmd(name, args...): exec.Command, stderr the caller's, env a copy of the caller's
Cmd(h, env, name, args) ==
    LET e == Environ(h, env) IN
    [cmd |-> [Args |-> <<name>> \o args,
              Dir |-> "",
              Stdin |-> NilReader,
              Stdout |-> NilWriter,
              Stderr |-> OsStderr,
              Env |-> e.slice,
              Process |-> "nil",
              ProcessState |-> <<>>,
              Bound |-> NilWriter],
     heap |-> e.heap]

\* NewFactory(options): the options are stored as given
NewFactory(options) == [Options |-> options]

\* CmdFactory.Cmd with the stderr option applied even when it is nil
FactoryCmdForcesStderr(h, env, f, name, args) ==
    LET b == Cmd(h, env, name, args)
        c1 == IF f.Options.Stdin # NilReader
              THEN [b.cmd EXCEPT !.Stdin = f.Options.Stdin] ELSE b.cmd
        c2 == IF f.Options.Stdout # NilWriter
              THEN [c1 EXCEPT !.Stdout = f.Options.Stdout] ELSE c1
        c3 == [c2 EXCEPT !.Stderr = f.Options.Stderr]
        c4 == IF f.Options.Dir # ""
              THEN [c3 EXCEPT !.Dir = f.Options.Dir] ELSE c3
    IN IF f.Options.Env.len > 0
       THEN LET a == GoAppend(b.heap, c4.Env, Contents(b.heap, f.Options.Env))
            IN [cmd |-> [c4 EXCEPT !.Env = a.slice], heap |-> a.heap]
       ELSE [cmd |-> c4, heap |-> b.heap]

\* CmdFactory.Cmd appending the builder's list to the options' list
FactoryCmdAppendsToOptions(h, env, f, name, args) ==
    LET b == Cmd(h, env, name, args)
        c1 == IF f.Options.Stdin # NilReader
              THEN [b.cmd EXCEPT !.Stdin = f.Options.Stdin] ELSE b.cmd
        c2 == IF f.Options.Stdout # NilWriter
              THEN [c1 EXCEPT !.Stdout = f.Options.Stdout] ELSE c1
        c3 == IF f.Options.Stderr # NilWriter
              THEN [c2 EXCEPT !.Stderr = f.Options.Stderr] ELSE c2
        c4 == IF f.Options.Dir # ""
              THEN [c3 EXCEPT !.Dir = f.Options.Dir] ELSE c3
    IN IF f.Options.Env.len > 0
       THEN LET a == GoAppend(b.heap, f.Options.Env, Contents(b.heap, c4.Env))
            IN [cmd |-> [c4 EXCEPT !.Env = a.slice], heap |-> a.heap]
       ELSE [cmd |-> c4, heap |-> b.heap]

\* CmdFactory.Cmd(name, args...)
FactoryCmd(h, env, f, name, args) ==
    LET b == Cmd(h, env, name, args)
        c1 == IF f.Options.Stdin # NilReader
              THEN [b.cmd EXCEPT !.Stdin = f.Options.Stdin] ELSE b.cmd
        c2 == IF f.Options.Stdout # NilWriter
              THEN [c1 EXCEPT !.Stdout = f.Options.Stdout] ELSE c1
        c3 == IF f.Options.Stderr # NilWriter
              THEN [c2 EXCEPT !.Stderr = f.Options.Stderr] ELSE c2
        c4 == IF f.Options.Dir # ""
              THEN [c3 EXCEPT !.Dir = f.Options.Dir] ELSE c3
    IN IF f.Options.Env.len > 0
       THEN LET a == GoAppend(b.heap, c4.Env, Contents(b.heap, f.Options.Env))
            IN [cmd |-> [c4 EXCEPT !.Env = a.slice], heap |-> a.heap]
       ELSE [cmd |-> c4, heap |-> b.heap]

\* the switch of Shell with the macOS case falling into the Linux one
ShellArgvBashOnDarwin(os, env, args) ==
    CASE os \in {"linux", "darwin"} -> <<"bash", "-c", args>>
      [] os = "windows" -> <<"powershell", "-Command", args>>
      [] OTHER -> <<Getenv(env, "SHELL"), "-c", args>>

\* the switch on runtime.GOOS of Shell: the program and the flag before the arg string
ShellArgv(os, env, args) ==
    CASE os = "linux" -> <<"bash", "-c", args>>
      [] os = "darwin" -> <<"zsh", "-c", args>>
      [] os = "windows" -> <<"powershell", "-Command", args>>
      [] OTHER -> <<Getenv(env, "SHELL"), "-c", args>>

\* the same switch in CmdFactory.Shell
FactoryShellArgv(os, env, args) ==
    CASE os = "linux" -> <<"bash", "-c", args>>
      [] os = "darwin" -> <<"zsh", "-c", args>>
      [] os = "windows" -> <<"powershell", "-Command", args>>
      [] OTHER -> <<Getenv(env, "SHELL"), "-c", args>>

\* Shell(args)
Shell(h, os, env, args) ==
    LET v == ShellArgv(os, env, args) IN Cmd(h, env, Head(v), Tail(v))

\* CmdFactory.Shell(args)
FactoryShell(h, os, env, f, args) ==
    LET v == FactoryShellArgv(os, env, args) IN FactoryCmd(h, env, f, Head(v), Tail(v))

(***************************************************************************)
(* Chained configuration methods.                                          *)
(***************************************************************************)
\* Dir treating the empty string as "keep", as the factory does with its options
DirKeepsIfEmpty(c, dir) == IF dir # "" THEN [c EXCEPT !.Dir = dir] ELSE c

Dir(c, dir) == [c EXCEPT !.Dir = dir]

Stdout(c, stdout) == [c EXCEPT !.Stdout = stdout]

Stderr(c, stderr) == [c EXCEPT !.Stderr = stderr]

Stdin(c, stdin) == [c EXCEPT !.Stdin = stdin]

Interactive(c) == [c EXCEPT !.Stderr = OsStderr, !.Stdin = OsStdin, !.Stdout = OsStdout]

\* Env assigning the list instead of appending to it
EnvReplaces(h, c, vs) ==
    LET a == GoAppend(h, NilSlice, vs) IN
    [cmd |-> [c EXCEPT !.Env = a.slice], heap |-> a.heap]

\* Env(vars...): append to the builder's own list
Env(h, c, vs) ==
    LET a == GoAppend(h, c.Env, vs) IN
    [cmd |-> [c EXCEPT !.Env = a.slice], heap |-> a.heap]

\* Build(): the exec.Cmd itself, not started
Build(c) == c

(***************************************************************************)
(* The exec.Cmd methods the terminal actions call.  io holds what has been *)
(* written: sinks by name, bytes.Buffers by number.  A process outcome oc  *)
(* is what the operating system does with the launch: whether the process  *)
(* can be created, what it writes to its standard output, its exit status. *)
(***************************************************************************)
ErrStarted == "exec: already started"
ErrStdoutSet == "exec: Stdout already set"
ErrCreate == "fork/exec: cannot create process"
ErrExit == "exit status 1"

RECURSIVE WriteAll(_, _, _)
WriteAll(io, ws, data) ==
    IF ws = <<>> THEN io
    ELSE LET w == Head(ws)
             io1 == IF w.buf = 0
                    THEN [io EXCEPT !.sinks[w.name] = @ \o data]
                    ELSE [io EXCEPT !.bufs[w.buf] = @ \o data]
         IN WriteAll(io1, Tail(ws), data)

NewBuffer(io) == [io EXCEPT !.bufs = Append(@, <<>>)]

\* exec.Cmd.Start: refuses a cmd that already has a process
ExecStart(c, oc) ==
    IF c.Process # "nil" THEN [cmd |-> c, err |-> ErrStarted, created |-> FALSE]
    ELSE IF ~oc.ok THEN [cmd |-> c, err |-> ErrCreate, created |-> FALSE]
    ELSE [cmd |-> [c EXCEPT !.Process = "running", !.Bound = c.Stdout],
          err |-> NoError, created |-> TRUE]

\* the process runs to its end: its output reaches the writers its standard
\* output was bound to when it was started
ExecWait(c, io, oc) ==
    [cmd |-> [c EXCEPT !.Process = "exited", !.ProcessState = <<oc.status>>],
     io |-> WriteAll(io, c.Bound, oc.out),
     err |-> IF oc.status = 0 THEN NoError ELSE ErrExit]

\* exec.Cmd.Run: Start, then Wait
ExecRun(c, io, oc) ==
    LET s == ExecStart(c, oc) IN
    IF s.err # NoError
    THEN [cmd |-> s.cmd, io |-> io, err |-> s.err, created |-> FALSE]
    ELSE LET w == ExecWait(s.cmd, io, oc) IN
         [cmd |-> w.cmd, io |-> w.io, err |-> w.err, created |-> TRUE]

\* exec.Cmd.Output: refuses a cmd whose Stdout is set, else captures into a buffer
ExecOutput(c, io, oc) ==
    IF c.Stdout # NilWriter
    THEN [cmd |-> c, io |-> io, err |-> ErrStdoutSet, out |-> <<>>, created |-> FALSE]
    ELSE LET io1 == NewBuffer(io)
             n == Len(io1.bufs)
             c1 == [c EXCEPT !.Stdout = <<Buf(n)>>,
                             !.Stderr = IF @ = NilWriter
                                        THEN <<Sink("exec.prefixSuffixSaver")>> ELSE @]
             r == ExecRun(c1, io1, oc)
         IN [cmd |-> r.cmd, io |-> r.io, err |-> r.err, out |-> r.io.bufs[n],
             created |-> r.created]

(***************************************************************************)
(* Terminal actions of the builder.                                        *)
(***************************************************************************)
\* Start on a cmd made anew for every call
StartAfresh(c, oc) == ExecStart([c EXCEPT !.Process = "nil"], oc)

Start(c, oc) == ExecStart(c, oc)

\* Run that starts the process and does not wait for it
RunWithoutWait(c, io, oc) ==
    LET s == ExecStart(c, oc) IN
    [cmd |-> s.cmd, io |-> io, err |-> s.err, created |-> s.created]

Run(c, io, oc) == ExecRun(c, io, oc)

\* Output without the branch for a cmd whose Stdout is set
OutputWithoutTee(c, io, oc) ==
    LET r == ExecOutput(c, io, oc)
    IN IF r.err # NoError
       THEN [r EXCEPT !.out = <<>>]
       ELSE [r EXCEPT !.out = TrimSpace(r.out)]

Output(c, io, oc) ==
    IF c.Stdout # NilWriter
    THEN LET io1 == NewBuffer(io)
             n == Len(io1.bufs)
             c1 == [c EXCEPT !.Stdout = MultiWriter(@, <<Buf(n)>>)]
             r == ExecRun(c1, io1, oc)
         IN IF r.err # NoError
            THEN [cmd |-> r.cmd, io |-> r.io, err |-> r.err, out |-> <<>>,
                  created |-> r.created]
            ELSE [cmd |-> r.cmd, io |-> r.io, err |-> NoError,
                  out |-> TrimSpace(r.io.bufs[n]), created |-> r.created]
    ELSE LET r == ExecOutput(c, io, oc)
         IN IF r.err # NoError
            THEN [r EXCEPT !.out = <<>>]
            ELSE [r EXCEPT !.out = TrimSpace(r.out)]

\* Lines splitting without normalising the line endings
LinesWithoutReplace(c, io, oc) ==
    LET r == Output(c, io, oc) IN
    IF r.err # NoError
    THEN [cmd |-> r.cmd, io |-> r.io, err |-> r.err, lines |-> <<>>, created |-> r.created]
    ELSE [cmd |-> r.cmd, io |-> r.io, err |-> NoError,
          lines |-> Split(r.out), created |-> r.created]

Lines(c, io, oc) ==
    LET r == Output(c, io, oc) IN
    IF r.err # NoError
    THEN [cmd |-> r.cmd, io |-> r.io, err |-> r.err, lines |-> <<>>, created |-> r.created]
    ELSE [cmd |-> r.cmd, io |-> r.io, err |-> NoError,
          lines |-> Split(ReplaceCRLF(r.out)), created |-> r.created]

(***************************************************************************)
(* The inputs of the calls.                                                *)
(***************************************************************************)
OSes == {"linux", "darwin", "windows", "freebsd"}
HostEnvs == {<<<<"SHELL", "/bin/sh">>>>, <<<<"HOME", "/root">>>>}
Names == {"git", "ls"}
ArgLists == {<<>>, <<"-l">>, <<"-l", "x">>}
ArgStrings == {"echo hi"}
DirInputs == {"", "/a"}
ReaderInputs == {NilReader, "R"}
WriterInputs == {NilWriter, <<Sink("W")>>}
VarLists == {<<>>, <<<<"A", "1">>>>, <<<<"B", "2">>>>, <<<<"A", "1">>, <<"B", "2">>>>}

Hello == <<"h", "e", "l", "l", "o", LF>>
ABLines == <<"a", CR, LF, "b", LF>>
Outputs ==
    {<<>>, <<LF>>, Hello, ABLines, <<SP, "a", LF, LF, "b", TAB>>, <<"a", CR, CR, LF, "b">>}

NoOutcome == [ok |-> FALSE, status |-> 0, out |-> <<>>]
ExitsWith(outs) == [ok : {TRUE}, status : {0, 1}, out : outs]
OutcomesWith(outs) == {NoOutcome} \cup ExitsWith(outs)

\* the Env of the options handed to NewFactory: a slice the caller built, with
\* or without spare capacity
NoEnv == [slice |-> NilSlice, heap |-> <<>>]

FactoryEnvs ==
    {NoEnv,
     [slice |-> [arr |-> 1, len |-> 1], heap |-> <<<<<<"F", "1">>>>>>],
     [slice |-> [arr |-> 1, len |-> 1], heap |-> <<<<<<"F", "1">>, ZeroEntry, ZeroEntry>>>>]}

(***************************************************************************)
(* The state machine.  builders[b] is the exec.Cmd of the b-th builder     *)
(* created; hist[b] records how it was created and what was asked of it;   *)
(* last records the most recent call, its arguments, the cmd it was made   *)
(* on, the sinks before it and what it returned; given is what NewFactory  *)
(* was handed; budget is how many builders the caller creates and how many *)
(* calls it makes on them.                                                 *)
(***************************************************************************)
IO == [sinks |-> sinks, bufs |-> bufs]

Call(op, b, arg, pre, oc, err, out, lines) ==
    [op |-> op, b |-> b, ret |-> b, arg |-> arg, pre |-> pre, sinks |-> sinks, oc |-> oc,
     err |-> err, out |-> out, lines |-> lines]

InitWith(os, env, in, out, errw, dir, fe, nb, nc) ==
    /\ goos = os
    /\ environ = env
    /\ heap = fe.heap
    /\ factory = NewFactory([Stdin |-> in, Stdout |-> out, Stderr |-> errw,
                             Dir |-> dir, Env |-> fe.slice])
    /\ given = [Stdin |-> in, Stdout |-> out, Stderr |-> errw, Dir |-> dir,
                Env |-> Contents(fe.heap, fe.slice)]
    /\ builders = <<>>
    /\ hist = <<>>
    /\ sinks = [n \in {"W", "os.Stdout"} |-> <<>>]
    /\ bufs = <<>>
    /\ last = Call("NewFactory", 0, <<>>, <<>>, NoOutcome, NoError, <<>>, <<>>)
    /\ calls = 0
    /\ budget = [builders |-> nb, calls |-> nc]

Created(ctor, name, args, r) ==
    /\ Len(builders) < budget.builders
    /\ builders' = Append(builders, r.cmd)
    /\ heap' = r.heap
    /\ hist' = Append(hist, [ctor |-> ctor, name |-> name, args |-> args,
                             ctorEnv |-> Contents(r.heap, r.cmd.Env),
                             envLog |-> <<>>, launches |-> 0, built |-> FALSE,
                             set |-> [Dir |-> r.cmd.Dir, Stdin |-> r.cmd.Stdin,
                                      Stdout |-> r.cmd.Stdout, Stderr |-> r.cmd.Stderr]])
    /\ last' = Call(ctor, Len(builders) + 1, <<name>> \o args, r.cmd, NoOutcome,
                    NoError, <<>>, <<>>)
    /\ UNCHANGED <<goos, environ, factory, given, sinks, bufs, calls, budget>>

CallCmd(name, args) == Created("Cmd", name, args, Cmd(heap, environ, name, args))

CallShell(args) == Created("Shell", "", <<args>>, Shell(heap, goos, environ, args))

CallFactoryCmd(name, args) ==
    Created("FactoryCmd", name, args, FactoryCmd(heap, environ, factory, name, args))

CallFactoryShell(args) ==
    Created("FactoryShell", "", <<args>>, FactoryShell(heap, goos, environ, factory, args))

\* a configuration call on builder b that leaves the heap alone; asked is what
\* the caller has asked the stream and directory fields to be so far
Configured(op, b, arg, c, asked) ==
    /\ b \in 1..Len(builders)
    /\ calls < budget.calls
    /\ builders' = [builders EXCEPT ![b] = c]
    /\ hist' = [hist EXCEPT ![b].set = asked]
    /\ last' = Call(op, b, arg, builders[b], NoOutcome, NoError, <<>>, <<>>)
    /\ calls' = calls + 1
    /\ UNCHANGED <<goos, environ, heap, factory, given, sinks, bufs, budget>>

CallDir(b, dir) ==
    /\ b \in 1..Len(builders)
    /\ Configured("Dir", b, dir, Dir(builders[b], dir), [hist[b].set EXCEPT !.Dir = dir])

CallStdout(b, w) ==
    /\ b \in 1..Len(builders)
    /\ Configured("Stdout", b, w, Stdout(builders[b], w), [hist[b].set EXCEPT !.Stdout = w])

CallStderr(b, w) ==
    /\ b \in 1..Len(builders)
    /\ Configured("Stderr", b, w, Stderr(builders[b], w), [hist[b].set EXCEPT !.Stderr = w])

CallStdin(b, r) ==
    /\ b \in 1..Len(builders)
    /\ Configured("Stdin", b, r, Stdin(builders[b], r), [hist[b].set EXCEPT !.Stdin = r])

CallInteractive(b) ==
    /\ b \in 1..Len(builders)
    /\ Configured("Interactive", b, <<>>, Interactive(builders[b]),
                  [hist[b].set EXCEPT !.Stdin = "os.Stdin",
                                      !.Stdout = <<[name |-> "os.Stdout", buf |-> 0]>>,
                                      !.Stderr = <<[name |-> "os.Stderr", buf |-> 0]>>])

CallEnv(b, vs) ==
    /\ b \in 1..Len(builders)
    /\ calls < budget.calls
    /\ LET r == Env(heap, builders[b], vs) IN
        /\ builders' = [builders EXCEPT ![b] = r.cmd]
        /\ heap' = r.heap
    /\ hist' = [hist EXCEPT ![b].envLog = @ \o vs]
    /\ last' = Call("Env", b, vs, builders[b], NoOutcome, NoError, <<>>, <<>>)
    /\ calls' = calls + 1
    /\ UNCHANGED <<goos, environ, factory, given, sinks, bufs, budget>>

\* Build(): the handle returned is the builder's own exec.Cmd; last.out is the
\* argv read from it
CallBuild(b) ==
    /\ b \in 1..Len(builders)
    /\ calls < budget.calls
    /\ builders' = [builders EXCEPT ![b] = Build(builders[b])]
    /\ hist' = [hist EXCEPT ![b].built = TRUE]
    /\ last' = Call("Build", b, <<>>, builders[b], NoOutcome, NoError,
                    Build(builders[b]).Args, <<>>)
    /\ calls' = calls + 1
    /\ UNCHANGED <<goos, environ, heap, factory, given, sinks, bufs, budget>>

\* a terminal call on builder b with result r, the operating system answering oc
Terminated(op, b, oc, io, r, out, lines) ==
    /\ b \in 1..Len(builders)
    /\ calls < budget.calls
    /\ builders' = [builders EXCEPT ![b] = r.cmd]
    /\ sinks' = io.sinks
    /\ bufs' = io.bufs
    /\ hist' = [hist EXCEPT ![b].launches = IF r.created THEN @ + 1 ELSE @]
    /\ last' = Call(op, b, <<>>, builders[b], oc, r.err, out, lines)
    /\ calls' = calls + 1
    /\ UNCHANGED <<goos, environ, heap, factory, given, budget>>

CallStart(b, oc) ==
    /\ b \in 1..Len(builders)
    /\ LET r == Start(builders[b], oc) IN Terminated("Start", b, oc, IO, r, <<>>, <<>>)

CallRun(b, oc) ==
    /\ b \in 1..Len(builders)
    /\ LET r == Run(builders[b], IO, oc) IN Terminated("Run", b, oc, r.io, r, <<>>, <<>>)

CallOutput(b, oc) ==
    /\ b \in 1..Len(builders)
    /\ LET r == Output(builders[b], IO, oc)
       IN Terminated("Output", b, oc, r.io, r, r.out, <<>>)

CallLines(b, oc) ==
    /\ b \in 1..Len(builders)
    /\ LET r == Lines(builders[b], IO, oc)
       IN Terminated("Lines", b, oc, r.io, r, <<>>, r.lines)

\* a process that Start left running writes its output and exits
Exit(b, oc) ==
    /\ b \in 1..Len(builders)
    /\ builders[b].Process = "running"
    /\ LET r == ExecWait(builders[b], IO, oc) IN
        /\ builders' = [builders EXCEPT ![b] = r.cmd]
        /\ sinks' = r.io.sinks
        /\ bufs' = r.io.bufs
    /\ UNCHANGED <<goos, environ, heap, factory, given, hist, last, calls, budget>>

Slots == 1..budget.builders

(***************************************************************************)
(* The whole machine: a caller on a Linux host that creates builders by    *)
(* any constructor, configures them, builds them and launches them.        *)
(***************************************************************************)
LinuxEnv == <<<<"SHELL", "/bin/sh">>>>

Init ==
    InitWith("linux", LinuxEnv, NilReader, <<Sink("W")>>, NilWriter, "/tmp", NoEnv,
             MaxLaunchers, MaxCalls)

Next ==
    \/ \E name \in Names, args \in {<<"-l", "x">>} : CallCmd(name, args)
    \/ \E args \in ArgStrings : CallShell(args)
    \/ \E name \in {"git"}, args \in {<<>>} : CallFactoryCmd(name, args)
    \/ \E args \in ArgStrings : CallFactoryShell(args)
    \/ \E b \in Slots, dir \in DirInputs : CallDir(b, dir)
    \/ \E b \in Slots, w \in WriterInputs : CallStdout(b, w)
    \/ \E b \in Slots, w \in WriterInputs : CallStderr(b, w)
    \/ \E b \in Slots, r \in ReaderInputs : CallStdin(b, r)
    \/ \E b \in Slots : CallInteractive(b)
    \/ \E b \in Slots, vs \in VarLists : CallEnv(b, vs)
    \/ \E b \in Slots : CallBuild(b)
    \/ \E b \in Slots, oc \in OutcomesWith({Hello}) : CallStart(b, oc)
    \/ \E b \in Slots, oc \in OutcomesWith({Hello}) : CallRun(b, oc)
    \/ \E b \in Slots, oc \in OutcomesWith({Hello}) : CallOutput(b, oc)
    \/ \E b \in Slots, oc \in OutcomesWith({Hello}) : CallLines(b, oc)
    \/ \E b \in Slots, oc \in ExitsWith({Hello}) : Exit(b, oc)

Spec == Init /\ [][Next]_vars

(***************************************************************************)
(* Construction alone, on every host and with every option bundle.         *)
(***************************************************************************)
InitCreate ==
    \E os \in OSes, env \in HostEnvs, in \in ReaderInputs, out \in WriterInputs,
       errw \in {NilWriter, <<Sink("E")>>}, dir \in {"", "/tmp"}, fe \in FactoryEnvs :
        InitWith(os, env, in, out, errw, dir, fe, MaxBuilders, 0)

NextCreate ==
    \/ \E name \in Names, args \in ArgLists : CallCmd(name, args)
    \/ \E args \in ArgStrings : CallShell(args)
    \/ \E name \in Names, args \in ArgLists : CallFactoryCmd(name, args)
    \/ \E args \in ArgStrings : CallFactoryShell(args)

SpecCreate == InitCreate /\ [][NextCreate]_vars

(***************************************************************************)
(* Configuration of builders, made by a factory or not.                    *)
(***************************************************************************)
InitConfig ==
    \E fe \in FactoryEnvs :
        InitWith("linux", LinuxEnv, NilReader, NilWriter, NilWriter,
                 IF fe = NoEnv THEN "" ELSE "/tmp", fe, MaxBuilders, MaxCalls)

NextConfig ==
    \/ \E name \in {"git"}, args \in {<<"-l">>} : CallCmd(name, args)
    \/ \E name \in {"git"}, args \in {<<"-l">>} : CallFactoryCmd(name, args)
    \/ \E b \in Slots, dir \in DirInputs : CallDir(b, dir)
    \/ \E b \in Slots, w \in WriterInputs : CallStdout(b, w)
    \/ \E b \in Slots, w \in WriterInputs : CallStderr(b, w)
    \/ \E b \in Slots, r \in ReaderInputs : CallStdin(b, r)
    \/ \E b \in Slots : CallInteractive(b)
    \/ \E b \in Slots, vs \in VarLists : CallEnv(b, vs)

SpecConfig == InitConfig /\ [][NextConfig]_vars

(***************************************************************************)
(* Several builders of one factory, each configured on its own.            *)
(***************************************************************************)
NextShare ==
    \/ \E name \in {"git"}, args \in {<<"-l">>} : CallFactoryCmd(name, args)
    \/ \E args \in ArgStrings : CallFactoryShell(args)
    \/ \E b \in Slots, dir \in DirInputs : CallDir(b, dir)
    \/ \E b \in Slots, w \in WriterInputs : CallStdout(b, w)
    \/ \E b \in Slots, w \in WriterInputs : CallStderr(b, w)
    \/ \E b \in Slots, r \in ReaderInputs : CallStdin(b, r)
    \/ \E b \in Slots : CallInteractive(b)
    \/ \E b \in Slots, vs \in VarLists : CallEnv(b, vs)

SpecShare == InitConfig /\ [][NextShare]_vars

(***************************************************************************)
(* Captured output: what the process writes, and where it goes.            *)
(***************************************************************************)
InitText ==
    \E out \in WriterInputs :
        InitWith("linux", LinuxEnv, NilReader, out, NilWriter, "", NoEnv,
                 MaxLaunchers, MaxCalls)

NextText ==
    \/ \E name \in {"git"}, args \in {<<"-l">>} : CallCmd(name, args)
    \/ \E name \in {"git"}, args \in {<<"-l">>} : CallFactoryCmd(name, args)
    \/ \E b \in Slots, w \in WriterInputs : CallStdout(b, w)
    \/ \E b \in Slots : CallInteractive(b)
    \/ \E b \in Slots, oc \in OutcomesWith(Outputs) : CallOutput(b, oc)
    \/ \E b \in Slots, oc \in OutcomesWith(Outputs) : CallLines(b, oc)

SpecText == InitText /\ [][NextText]_vars

(***************************************************************************)
(* Launching: terminal actions, repeated or not, and the processes' ends.  *)
(***************************************************************************)
InitLaunch ==
    \E out \in WriterInputs :
        InitWith("linux", LinuxEnv, NilReader, out, NilWriter, "", NoEnv,
                 MaxLaunchers, MaxRuns)

NextLaunch ==
    \/ \E name \in {"git"}, args \in {<<"-l">>} : CallCmd(name, args)
    \/ \E name \in {"git"}, args \in {<<"-l">>} : CallFactoryCmd(name, args)
    \/ \E b \in Slots, w \in WriterInputs : CallStdout(b, w)
    \/ \E b \in Slots : CallInteractive(b)
    \/ \E b \in Slots, oc \in OutcomesWith({Hello}) : CallStart(b, oc)
    \/ \E b \in Slots, oc \in OutcomesWith({Hello}) : CallRun(b, oc)
    \/ \E b \in Slots, oc \in OutcomesWith({Hello}) : CallOutput(b, oc)
    \/ \E b \in Slots, oc \in OutcomesWith({Hello}) : CallLines(b, oc)
    \/ \E b \in Slots, oc \in ExitsWith({Hello}) : Exit(b, oc)

SpecLaunch == InitLaunch /\ [][NextLaunch]_vars

(***************************************************************************)
(* What is observable of a builder: its exec.Cmd with the environment list *)
(* read through its slice.                                                 *)
(***************************************************************************)
View(h, c) == [c EXCEPT !.Env = Contents(h, c.Env)]

MadeByFactory(b) == hist[b].ctor \in {"FactoryCmd", "FactoryShell"}

(***************************************************************************)
(* C1: the builder CmdFactory.Cmd(name, args) returns is the builder       *)
(* Cmd(name, args) returns, except that stdin, stdout and stderr are the   *)
(* factory's value exactly when that value is non-nil, dir is the          *)
(* factory's exactly when it is non-empty, and the factory's env entries   *)
(* follow the caller's environment; with all-empty options it is the       *)
(* builder of Cmd(name, args).                                             *)
(***************************************************************************)
FactoryCmdAppliesOnlySetOptions ==
    last.op = "FactoryCmd" =>
        LET got == View(heap, builders[last.b])
            free == Cmd(<<>>, environ, hist[last.b].name, hist[last.b].args)
            plain == View(free.heap, free.cmd)
        IN /\ plain.Stderr = <<[name |-> "os.Stderr", buf |-> 0]>>
           /\ plain.Stdin = "nil" /\ plain.Stdout = <<>> /\ plain.Dir = ""
           /\ plain.Env = environ
           /\ got = [plain EXCEPT
                       !.Stdin = IF given.Stdin # "nil" THEN given.Stdin ELSE @,
                       !.Stdout = IF given.Stdout # <<>> THEN given.Stdout ELSE @,
                       !.Stderr = IF given.Stderr # <<>> THEN given.Stderr ELSE @,
                       !.Dir = IF given.Dir # "" THEN given.Dir ELSE @,
                       !.Env = @ \o given.Env]

FactoryCmdWitness ==
    /\ last.op = "FactoryCmd"
    /\ given.Dir = "/tmp" /\ given.Stdout = <<Sink("W")>>
    /\ given.Stderr = <<>> /\ given.Stdin = "nil" /\ given.Env = <<<<"F", "1">>>>
    /\ builders[last.b].Dir = "/tmp"
    /\ builders[last.b].Stdout = <<Sink("W")>>
    /\ builders[last.b].Stderr = <<Sink("os.Stderr")>>
    /\ Contents(heap, builders[last.b].Env) = environ \o <<<<"F", "1">>>>

\* the shell invocation documented for each host
ShellTable(str) ==
    IF goos = "linux" THEN <<"bash", "-c", str>>
    ELSE IF goos = "darwin" THEN <<"zsh", "-c", str>>
    ELSE IF goos = "windows" THEN <<"powershell", "-Command", str>>
    ELSE <<IF environ = <<<<"SHELL", "/bin/sh">>>> THEN "/bin/sh" ELSE "", "-c", str>>

(***************************************************************************)
(* C7: Shell(argString) is Cmd("bash", "-c", argString) on Linux,          *)
(* Cmd("zsh", "-c", argString) on macOS, Cmd("powershell", "-Command",     *)
(* argString) on Windows and Cmd($SHELL, "-c", argString) elsewhere, the   *)
(* arg string being one argument; CmdFactory.Shell selects the same and    *)
(* differs only by what CmdFactory.Cmd applies.                            *)
(***************************************************************************)
ShellSelectsByHost ==
    /\ last.op = "Shell" =>
        LET argv == ShellTable(hist[last.b].args[1])
            want == Cmd(<<>>, environ, argv[1], <<argv[2], argv[3]>>)
        IN /\ builders[last.b].Args = argv
           /\ View(heap, builders[last.b]) = View(want.heap, want.cmd)
    /\ last.op = "FactoryShell" =>
        LET argv == ShellTable(hist[last.b].args[1])
            want == FactoryCmd(heap, environ, factory, argv[1], <<argv[2], argv[3]>>)
        IN /\ builders[last.b].Args = argv
           /\ View(heap, builders[last.b]) = View(want.heap, want.cmd)

ShellWitness ==
    /\ last.op = "Shell"
    /\ goos = "darwin"
    /\ builders[last.b].Args = <<"zsh", "-c", "echo hi">>

(***************************************************************************)
(* C3: a builder's environment list is the list it had at construction     *)
(* (the caller's environment, then the factory's entries when a factory    *)
(* made it) followed by the arguments of all its Env calls in call order.  *)
(***************************************************************************)
EnvOnlyAppends ==
    \A b \in 1..Len(builders) :
        /\ hist[b].ctorEnv = environ \o (IF MadeByFactory(b) THEN given.Env ELSE <<>>)
        /\ Contents(heap, builders[b].Env) = hist[b].ctorEnv \o hist[b].envLog

EnvWitness ==
    /\ last.op = "Env"
    /\ last.arg = <<<<"B", "2">>>>
    /\ hist[last.b].ctor = "FactoryCmd"
    /\ hist[last.b].envLog = <<<<"A", "1">>, <<"B", "2">>>>
    /\ Contents(heap, builders[last.b].Env)
         = <<<<"SHELL", "/bin/sh">>, <<"F", "1">>, <<"A", "1">>, <<"B", "2">>>>

(***************************************************************************)
(* C9: Dir, Stdin, Stdout and Stderr set their field to the argument and   *)
(* change nothing else, so each field holds the value of the most recent   *)
(* call for it, or its construction default; Dir("") leaves the directory  *)
(* empty whatever it was; Interactive sets exactly the three streams to    *)
(* the caller's own; each method returns the builder it was called on.     *)
(***************************************************************************)
LastWriteWins ==
    /\ \A b \in 1..Len(builders) :
        /\ builders[b].Dir = hist[b].set.Dir
        /\ builders[b].Stdin = hist[b].set.Stdin
        /\ builders[b].Stdout = hist[b].set.Stdout
        /\ builders[b].Stderr = hist[b].set.Stderr
    /\ last.op = "Dir" => builders[last.b] = [last.pre EXCEPT !.Dir = last.arg]
    /\ last.op = "Stdin" => builders[last.b] = [last.pre EXCEPT !.Stdin = last.arg]
    /\ last.op = "Stdout" => builders[last.b] = [last.pre EXCEPT !.Stdout = last.arg]
    /\ last.op = "Stderr" => builders[last.b] = [last.pre EXCEPT !.Stderr = last.arg]
    /\ last.op = "Interactive" =>
        builders[last.b] = [last.pre EXCEPT !.Stdin = "os.Stdin",
                                            !.Stdout = <<Sink("os.Stdout")>>,
                                            !.Stderr = <<Sink("os.Stderr")>>]
    /\ last.op \in {"Dir", "Stdin", "Stdout", "Stderr", "Interactive", "Env"} =>
        last.ret = last.b

DirResetWitness ==
    /\ last.op = "Dir"
    /\ last.arg = ""
    /\ MadeByFactory(last.b)
    /\ given.Dir = "/tmp"
    /\ last.pre.Dir = "/a"
    /\ builders[last.b].Dir = ""

\* the options of the factory, its Env read through the slice
FactoryOptionsAsGiven ==
    [factory.Options EXCEPT !.Env = Contents(heap, @)] = given

(***************************************************************************)
(* C10: the factory's options stay what NewFactory was given, and a call   *)
(* that creates or configures one builder changes neither the dir, the     *)
(* streams nor the environment list of any other builder.                  *)
(***************************************************************************)
BuildersDoNotInterfere ==
    [][/\ FactoryOptionsAsGiven'
       /\ \A j \in 1..Len(builders) :
            j # last'.b => View(heap', builders'[j]) = View(heap, builders[j])]_vars

SharedFactoryWitness ==
    /\ Len(builders) = 2
    /\ MadeByFactory(1) /\ MadeByFactory(2)
    /\ given.Env # <<>>
    /\ last.op = "Env" /\ last.b = 2 /\ last.arg = <<<<"B", "2">>>>
    /\ hist[1].envLog = <<<<"A", "1">>>>
    /\ Contents(heap, builders[1].Env) = <<<<"SHELL", "/bin/sh">>, <<"F", "1">>, <<"A", "1">>>>
    /\ Contents(heap, builders[2].Env) = <<<<"SHELL", "/bin/sh">>, <<"F", "1">>, <<"B", "2">>>>

Terminals == {"Start", "Run", "Output", "Lines"}

(***************************************************************************)
(* C8: whatever configuration calls came before, Build() returns a handle  *)
(* whose argv is the name followed by exactly the args given to the        *)
(* constructor; Build() changes nothing and starts nothing, so a terminal  *)
(* action after it is the first launch.                                    *)
(***************************************************************************)
BuildReturnsArgvUnstarted ==
    /\ \A b \in 1..Len(builders) :
        /\ hist[b].ctor \in {"Cmd", "FactoryCmd"} =>
             builders[b].Args = <<hist[b].name>> \o hist[b].args
        /\ hist[b].launches = 0 => builders[b].Process = "nil"
    /\ last.op = "Build" =>
        /\ last.pre.Process # "running" => builders[last.b] = last.pre
        /\ [builders[last.b] EXCEPT !.Process = "", !.ProcessState = <<>>]
             = [last.pre EXCEPT !.Process = "", !.ProcessState = <<>>]
        /\ last.out = builders[last.b].Args
    /\ (last.op \in Terminals /\ hist[last.b].built /\ last.pre.Process = "nil"
          /\ last.oc.ok) =>
        /\ hist[last.b].launches = 1
        /\ last.err # ErrStarted

BuildThenRunWitness ==
    /\ last.op = "Run"
    /\ hist[last.b].built
    /\ hist[last.b].ctor = "Cmd"
    /\ builders[last.b].Args = <<"ls", "-l", "x">>
    /\ last.err = NoError
    /\ hist[last.b].launches = 1

\* t is s without its leading and trailing whitespace
AllSpace(s) == \A k \in 1..Len(s) : s[k] \in {" ", "\t", "\n", "\r"}

IsTrimOf(t, s) ==
    /\ t = <<>> \/ (~AllSpace(<<t[1]>>) /\ ~AllSpace(<<t[Len(t)]>>))
    /\ \E i \in 0..Len(s) : \E j \in i..Len(s) :
        /\ t = SubSeq(s, i + 1, j)
        /\ AllSpace(SubSeq(s, 1, i))
        /\ AllSpace(SubSeq(s, j + 1, Len(s)))

(***************************************************************************)
(* C2: Output() on a builder whose stdout was set beforehand does not fail *)
(* with "Stdout already set"; when the process succeeds the sink has       *)
(* received the process's output and Output() returns that output with     *)
(* leading and trailing whitespace removed, as it does with no sink set.   *)
(***************************************************************************)
OutputTeesToSink ==
    last.op = "Output" =>
        /\ last.err # ErrStdoutSet
        /\ (last.pre.Process = "nil" /\ last.oc.ok /\ last.oc.status = 0) =>
            /\ last.err = NoError
            /\ IsTrimOf(last.out, last.oc.out)
            /\ last.oc.out = Hello => last.out = <<"h", "e", "l", "l", "o">>
            /\ \A k \in 1..Len(last.pre.Stdout) :
                 last.pre.Stdout[k].buf = 0 =>
                    sinks[last.pre.Stdout[k].name]
                      = last.sinks[last.pre.Stdout[k].name] \o last.oc.out

OutputSinkWitness ==
    /\ last.op = "Output"
    /\ last.pre.Stdout = <<Sink("W")>>
    /\ last.oc.out = Hello
    /\ last.err = NoError
    /\ last.out = <<"h", "e", "l", "l", "o">>
    /\ sinks["W"] = Hello

(***************************************************************************)
(* C6 as stated: for a process writing "a\r\nb\n", Lines() returns         *)
(* ["a", "b", ""], a trailing empty element standing for the final line    *)
(* terminator.                                                             *)
(***************************************************************************)
LinesKeepsTrailingEmpty ==
    (last.op = "Lines" /\ last.err = NoError /\ last.oc.out = ABLines) =>
        last.lines = <<<<"a">>, <<"b">>, <<>>>>

(***************************************************************************)
(* C6 amended: Lines() splits the output Output() returns, which is        *)
(* trimmed first: CRLF becomes LF, the result is split on LF, and for      *)
(* "a\r\nb\n" Lines() returns ["a", "b"]; no element holds a line feed and *)
(* neither the first nor the last element is empty unless the trimmed      *)
(* output is empty, when the result is the one empty string.               *)
(***************************************************************************)
LinesSplitsTrimmedOutput ==
    (last.op = "Lines" /\ last.err = NoError) =>
        /\ Len(last.lines) >= 1
        /\ \A i \in 1..Len(last.lines) :
             \A k \in 1..Len(last.lines[i]) : last.lines[i][k] # "\n"
        /\ Len(last.lines) > 1 =>
             last.lines[1] # <<>> /\ last.lines[Len(last.lines)] # <<>>
        /\ last.oc.out = ABLines => last.lines = <<<<"a">>, <<"b">>>>
        /\ last.oc.out = Hello => last.lines = <<<<"h", "e", "l", "l", "o">>>>
        /\ last.oc.out \in {<<>>, <<"\n">>} => last.lines = <<<<>>>>
        /\ last.oc.out = <<" ", "a", "\n", "\n", "b", "\t">> =>
             last.lines = <<<<"a">>, <<>>, <<"b">>>>
        /\ last.oc.out = <<"a", "\r", "\r", "\n", "b">> =>
             last.lines = <<<<"a", "\r">>, <<"b">>>>

LinesWitness ==
    /\ last.op = "Lines"
    /\ last.err = NoError
    /\ last.oc.out = ABLines
    /\ last.lines = <<<<"a">>, <<"b">>>>

\* the failure of the process itself that a terminal action can observe
Underlying(op, oc) ==
    IF ~oc.ok THEN "fork/exec: cannot create process"
    ELSE IF op # "Start" /\ oc.status # 0 THEN "exit status 1"
    ELSE "nil"

(***************************************************************************)
(* C4: on a specification not yet launched, Start() fails exactly when the *)
(* process cannot be created; Run() fails exactly when it cannot be        *)
(* created or exits non-zero; Output() fails in the cases Run() does, with *)
(* the same error and the empty string, a sink being set or not; Lines()   *)
(* returns no lines and the error of Output().                             *)
(***************************************************************************)
ErrorsSurfaceUnchanged ==
    (last.op \in Terminals /\ last.pre.Process = "nil") =>
        /\ last.err = Underlying(last.op, last.oc)
        /\ last.err # "nil" => last.out = <<>> /\ last.lines = <<>>

StartMissesExitWitness ==
    /\ last.op = "Start"
    /\ last.err = NoError
    /\ builders[last.b].ProcessState = <<1>>

(***************************************************************************)
(* C5: at most one process is ever created for a builder, and a terminal   *)
(* action on a builder that has been launched returns an error and         *)
(* launches nothing, also when Output() wraps a set stdout again.          *)
(***************************************************************************)
LaunchedAtMostOnce ==
    /\ \A b \in 1..Len(builders) :
        /\ hist[b].launches <= 1
        /\ hist[b].launches = 1 <=> builders[b].Process # "nil"
    /\ (last.op \in Terminals /\ last.pre.Process # "nil") =>
        /\ last.err # NoError
        /\ last.out = <<>> /\ last.lines = <<>>
        /\ builders[last.b].Process = last.pre.Process
             \/ (last.pre.Process = "running" /\ builders[last.b].Process = "exited")

RepeatedOutputWitness ==
    /\ last.op = "Output"
    /\ last.pre.Process = "exited"
    /\ last.pre.Stdout = <<Sink("W"), Buf(1)>>
    /\ builders[last.b].Stdout = <<Sink("W"), Buf(1), Buf(2)>>
    /\ last.err = ErrStarted
    /\ hist[last.b].launches = 1
====
